---- MODULE Spec2Model ----
(***************************************************************************)
(* Model of the Maya voice front-end (App component, two revisions kept    *)
(* in the same source file: the earlier one, lines 1-412, and the later    *)
(* one, lines 414-855).  The model covers the live-session lifecycle       *)
(* (startLiveSession / stopSession and the remote callbacks), the capture  *)
(* callback and the playback scheduling of received audio chunks.          *)
(*                                                                         *)
(* Objects created by the n-th call of startLiveSession (its two audio     *)
(* contexts, its microphone stream and its remote session) are identified  *)
(* by n; a reference holding 0 is null.  Every `await` on a browser or     *)
(* SDK operation is a suspension point: the code before it and the code    *)
(* after it are separate steps, and other handlers can run in between.     *)
(* A continuation that is only a microtask away (the code after            *)
(* `await stopSession()` once that call has finished) runs before any      *)
(* other handler.  Handlers read the isActive value of the latest render.  *)
(* The input-level meter (inputLevel) is display only and is left out.     *)
(*                                                                         *)
(* The message history, its copy in localStorage (later revision), the     *)
(* text prompts and the transcript buffers (earlier revision) are modelled *)
(* too.  A message is a record; its text is a sequence of strings, so that *)
(* a transcript is the concatenation of its fragments.  The effect that    *)
(* follows a change of the history runs before any other handler can and   *)
(* is part of the step that changes the history.  The ids drawn with       *)
(* Math.random are taken to be fresh.                                      *)
(*                                                                         *)
(* AudioContext.close() is taken as the implementations do in which the    *)
(* state attribute reads 'closed' only once the returned promise resolves, *)
(* and a close() on a context that is already closing is rejected.         *)
(*                                                                         *)
(* Time: outTime[c] is the last value read from the currentTime of output  *)
(* context c.  A read returns any value from that one on while the context *)
(* runs, and that same value when it does not.                             *)
(***************************************************************************)
EXTENDS Integers, Sequences, FiniteSets, TLC

\* ---------------------------------------------------------------- bounds
MaxStarts == 2        \* calls of startLiveSession that pass the credential check
MaxStopCalls == 2     \* stopSession calls of the later revision suspended at once
MaxMsgs == 3          \* messages a session delivers in the playback specification
LifeMsgs == 1         \* messages delivered in the lifecycle specification
MaxParts == 2         \* audio parts in one message
MaxDur == 1           \* longest chunk duration
MaxTime == 1          \* latest clock value read
MaxRequests == 3      \* generateContent calls made in the text specification
MaxForgets == 2       \* messages deleted one by one in the history specification
SampleDen == 3        \* a captured sample is a multiple of 1/SampleDen
MaxSample == 7        \* the samples run from -MaxSample/SampleDen to MaxSample/SampleDen
FrameLen == 2         \* samples in a captured frame
GapTime == 2          \* latest clock value read in the gap specification
GapMsgs == 2          \* messages a session delivers in the gap specification

Starts == 1..MaxStarts
Slots == 1..MaxStopCalls
Handlers == 1..MaxMsgs
Sources == 1..(MaxMsgs * MaxParts)
Durations == 1..MaxDur
Revs == {1, 2}        \* 1: earlier revision, 2: later revision
ReqIds == 1..MaxRequests

Modes(r) == IF r = 1 THEN {"LIVE", "DEEP_THOUGHT", "SEARCH"}
            ELSE {"LIVE", "DEEP_THOUGHT", "SEARCH", "IMAGE"}
\* the mode button pressed in the lifecycle specification: the one of the current
\* mode, whose handler runs the same statements as the others
ModesTried == {"LIVE"}
\* the audio parts of the messages delivered in the lifecycle specification
LifeParts == {<<1>>}

\* What `new AudioContext(...)` can do: throw, or give a context.  The earlier
\* revision resumes a context created suspended; the later one is modelled with
\* contexts that run from creation.
Creations(r) == IF r = 1 THEN {"fail", "suspended", "running"} ELSE {"fail", "running"}

\* the parts of a message that carry audio, as their durations
PartSeqs == UNION {[1..n -> Durations] : n \in 0..MaxParts}

Max(a, b) == IF a >= b THEN a ELSE b

VARIABLES
  rev,                \* which revision of App runs
  apiKey,             \* process.env.API_KEY is set
  horizon,            \* latest clock value a read gives in this behaviour
  alertShown,         \* alert("API Key missing") has been shown
  mode,               \* useState mode
  isActive,           \* useState isActive
  isMayaSpeaking,     \* useState isMayaSpeaking (later revision)
  sessionRef, streamRef, inputAudioCtxRef, outputAudioCtxRef,
  nextStartTimeRef,   \* the playback cursor
  sourcesRef,         \* the active set of playback sources
  stopCalled,         \* sources on which stop() has been called
  inCtx, outCtx,      \* state of each start's input / output AudioContext
  outTime,            \* last currentTime read from each output context
  track,              \* each start's microphone track: none, live, stopped
  sess,               \* each start's remote session
  closeCalls,         \* number of close() calls made on each session
  chain,              \* the cursor has not been reset since the last source.start
  afterIntr,          \* what the first chunk after an interruption got as cursor
  intrClean,          \* every interrupted branch left the set empty, the cursor 0
  start,              \* each startLiveSession call: where it is suspended
  nStarts,            \* startLiveSession calls made so far
  stop,               \* suspended stopSession calls (later revision)
  pipeline,           \* input context the capture graph of each start runs on
  sentOnNull,         \* a frame was sent while sessionRef was null
  errored,            \* the sessions whose onerror callback has fired
  hd,                 \* the onmessage calls: where each is suspended
  msgsLeft,           \* messages still to be delivered
  src,                \* the playback sources created
  last,               \* the latest source.start call
  unhandled,          \* a promise rejected with nobody handling it
  mounted,            \* the effects of the first render have run
  messages,           \* useState messages
  store,              \* localStorage item 'maya_neural_link'
  isThinking,         \* useState isThinking
  req,                \* the generateContent calls made
  currentInputTranscription, currentOutputTranscription,
  lastFrame,          \* the frame createBlob built last: its input, its samples
  nForgets            \* messages deleted one by one so far

worldVars == <<isActive, isMayaSpeaking, sessionRef, streamRef,
               inputAudioCtxRef, outputAudioCtxRef, nextStartTimeRef, sourcesRef,
               stopCalled, inCtx, outCtx, outTime, track, sess, closeCalls, chain,
               afterIntr, intrClean>>
envVars == <<rev, apiKey, horizon>>
uiVars == <<alertShown, mode, nStarts, pipeline, sentOnNull, errored>>
msgVars == <<hd, msgsLeft, src, last>>
histVars == <<messages, store>>
turnVars == <<currentInputTranscription, currentOutputTranscription>>
textVars == <<mounted, histVars, isThinking, req, turnVars, lastFrame, nForgets>>
liveVars == <<envVars, uiVars, worldVars, start, stop, msgVars, unhandled>>
vars == <<liveVars, textVars>>

\* The state touched by stopSession and by onmessage, as one value the operators
\* below transform.
World ==
  [isActive |-> isActive, isMayaSpeaking |-> isMayaSpeaking,
   sessionRef |-> sessionRef, streamRef |-> streamRef,
   inputAudioCtxRef |-> inputAudioCtxRef, outputAudioCtxRef |-> outputAudioCtxRef,
   nextStartTimeRef |-> nextStartTimeRef, sourcesRef |-> sourcesRef,
   stopCalled |-> stopCalled, inCtx |-> inCtx, outCtx |-> outCtx, outTime |-> outTime,
   track |-> track, sess |-> sess, closeCalls |-> closeCalls, chain |-> chain,
   afterIntr |-> afterIntr, intrClean |-> intrClean]

Commit(w) ==
  /\ isActive' = w.isActive
  /\ isMayaSpeaking' = w.isMayaSpeaking
  /\ sessionRef' = w.sessionRef
  /\ streamRef' = w.streamRef
  /\ inputAudioCtxRef' = w.inputAudioCtxRef
  /\ outputAudioCtxRef' = w.outputAudioCtxRef
  /\ nextStartTimeRef' = w.nextStartTimeRef
  /\ sourcesRef' = w.sourcesRef
  /\ stopCalled' = w.stopCalled
  /\ inCtx' = w.inCtx
  /\ outCtx' = w.outCtx
  /\ outTime' = w.outTime
  /\ track' = w.track
  /\ sess' = w.sess
  /\ closeCalls' = w.closeCalls
  /\ chain' = w.chain
  /\ afterIntr' = w.afterIntr
  /\ intrClean' = w.intrClean

\* ------------------------------------------------- stopSession, the parts
\* session.close(): an open session starts closing; its onclose fires later.
CloseSession(w, s) ==
  [w EXCEPT !.sess[s] = IF @ = "open" THEN "closing" ELSE @,
            !.closeCalls[s] = @ + 1]

\* streamRef.current.getTracks().forEach(t => t.stop()); streamRef.current = null
StopTracks(w) ==
  IF w.streamRef = 0 THEN w
  ELSE [w EXCEPT !.track[w.streamRef] = "stopped", !.streamRef = 0]

\* A teardown that forgets `nextStartTimeRef.current = 0`.
StopSourcesKeepsCursor(w) ==
  [w EXCEPT !.stopCalled = @ \cup w.sourcesRef, !.sourcesRef = {}, !.chain = FALSE]

\* sourcesRef.current.forEach(s => s.stop()); clear(); nextStartTimeRef.current = 0
StopSources(w) ==
  [w EXCEPT !.stopCalled = @ \cup w.sourcesRef, !.sourcesRef = {},
            !.nextStartTimeRef = 0, !.chain = FALSE]

\* AudioContext.close(): the state attribute turns "closed" only when the promise
\* resolves; a second close() on a context already closing is rejected.
CloseRejects(st) == st \in {"closing", "closed"}

\* ------------------------------------------ stopSession, earlier revision
\* close().catch(...): a rejected close is logged, never thrown.
CloseInputEarlier(w) ==
  IF w.inputAudioCtxRef = 0 THEN w
  ELSE LET c == w.inputAudioCtxRef IN
       [w EXCEPT !.inCtx[c] = IF CloseRejects(w.inCtx[c]) THEN @ ELSE "closing",
                 !.inputAudioCtxRef = 0]

CloseOutputEarlier(w) ==
  IF w.outputAudioCtxRef = 0 THEN w
  ELSE LET c == w.outputAudioCtxRef IN
       [w EXCEPT !.outCtx[c] = IF CloseRejects(w.outCtx[c]) THEN @ ELSE "closing",
                 !.outputAudioCtxRef = 0]

CloseSessionEarlier(w) ==
  IF w.sessionRef = 0 THEN w
  ELSE CloseSession([w EXCEPT !.sessionRef = 0], w.sessionRef)

stopSessionEarlier(w) ==
  StopSources(CloseOutputEarlier(CloseInputEarlier(StopTracks(CloseSessionEarlier(
    [w EXCEPT !.isActive = FALSE])))))

\* -------------------------------------------- stopSession, later revision
\* Each operator runs the function from one statement to its next await and
\* returns the world then, where the call is suspended (at) and on what (obj):
\*   at = "sess" / "in" / "out": awaiting session.close() / inputCtx.close() /
\*   outputCtx.close();  "done": returned;  "threw": the awaited close() rejected.
StopTailLater(w) == [w |-> StopSources(w), at |-> "done", obj |-> 0]

StopFromOutputLater(w) ==
  IF w.outputAudioCtxRef = 0 THEN StopTailLater(w)
  ELSE LET c == w.outputAudioCtxRef IN
       IF w.outCtx[c] = "closed" THEN StopTailLater([w EXCEPT !.outputAudioCtxRef = 0])
       ELSE IF CloseRejects(w.outCtx[c]) THEN [w |-> w, at |-> "threw", obj |-> c]
       ELSE [w |-> [w EXCEPT !.outCtx[c] = "closing"], at |-> "out", obj |-> c]

StopAfterOutputLater(w) == StopTailLater([w EXCEPT !.outputAudioCtxRef = 0])

StopFromInputLater(w) ==
  IF w.inputAudioCtxRef = 0 THEN StopFromOutputLater(w)
  ELSE LET c == w.inputAudioCtxRef IN
       IF w.inCtx[c] = "closed" THEN StopFromOutputLater([w EXCEPT !.inputAudioCtxRef = 0])
       ELSE IF CloseRejects(w.inCtx[c]) THEN [w |-> w, at |-> "threw", obj |-> c]
       ELSE [w |-> [w EXCEPT !.inCtx[c] = "closing"], at |-> "in", obj |-> c]

StopAfterInputLater(w) == StopFromOutputLater([w EXCEPT !.inputAudioCtxRef = 0])

StopAfterSessionLater(w) == StopFromInputLater(StopTracks([w EXCEPT !.sessionRef = 0]))

stopSessionLater(w) ==
  LET w1 == [w EXCEPT !.isActive = FALSE, !.isMayaSpeaking = FALSE] IN
  IF w1.sessionRef # 0
  THEN [w |-> CloseSession(w1, w1.sessionRef), at |-> "sess", obj |-> w1.sessionRef]
  ELSE StopFromInputLater(StopTracks(w1))

\* ------------------------------------------------------------- onmessage
\* An onmessage call: pc is where it is suspended ("resume", "decode"), k the
\* session whose callback it is, parts the audio parts not yet played (the first
\* one is being decoded), intr the interrupted flag, obj the context being resumed,
\* seq whether no other onmessage call was in progress while this one was, first
\* whether its message is the first with audio after an interruption, kept
\* whether the cursor was ahead of the clock when the call raised it for the part
\* being decoded, crossed whether the interrupted branch of another call ran
\* while this one was waiting for a decode.
NewHandler == [pc |-> "new", k |-> 0, parts |-> <<>>, intr |-> FALSE, obj |-> 0,
               seq |-> TRUE, first |-> FALSE, kept |-> FALSE,
               crossed |-> FALSE]
DoneHandler == [NewHandler EXCEPT !.pc = "done"]

\* A source that has been started on context ctx and plays until end; once its
\* 'ended' event has fired it is EndedSource.
Started(t, d, at, ctx) ==
  [state |-> "started", ctx |-> ctx, end |-> Max(t, at) + d]
EndedSource == [state |-> "ended", ctx |-> 0, end |-> 0]

\* A source.start(t) call: t the start time passed, d the buffer's duration, at the
\* context's clock at the call, seq whether the chunk was handled after the
\* previous one with no cursor reset in between, prevEnd the previous call's t + d.
\* It is made by the onmessage call h (the calls are numbered as their messages
\* arrive), which is kept when the call of an earlier message is still suspended
\* (ahead), as only such a call can be overtaken.  prevT is the previous call's t,
\* overtaken whether the previous call was made for a message that arrived after
\* this one's.
NoCall == [t |-> 0, d |-> 0, at |-> 0, seq |-> FALSE, prevEnd |-> 0, h |-> 0,
           prevT |-> 0, overtaken |-> FALSE]
StartCall(t, d, at, seq, prev, h, ahead) ==
  [t |-> t, d |-> d, at |-> at, seq |-> seq, prevEnd |-> prev.t + prev.d,
   h |-> IF ahead THEN h ELSE 0, prevT |-> prev.t, overtaken |-> prev.h > h]

\* the values a read of context c's currentTime can give
Reads(w, c) ==
  IF c = 0 THEN {0}
  ELSE IF w.outCtx[c] = "running" THEN w.outTime[c]..Max(horizon, w.outTime[c])
  ELSE {w.outTime[c]}

\* nextStartTimeRef.current = Math.max(nextStartTimeRef.current, ctx.currentTime)
\* (lines 179 / 613), the clock of context c reading now.
\* The same with the cursor set to the clock whatever it was.
raiseCursorToClock(cursor, now) == now

raiseCursor(cursor, now) == Max(cursor, now)

Raise(w, rec, c, now) ==
  LET cur == raiseCursor(w.nextStartTimeRef, now) IN
  [w EXCEPT !.outTime[c] = now,
            !.nextStartTimeRef = cur,
            !.afterIntr = IF rec.first THEN (IF cur = now THEN "fresh" ELSE "stale")
                          ELSE @]

\* A handler that forgets to advance the cursor.
advanceCursorStuck(cursor, d) == cursor

\* nextStartTimeRef.current += audioBuffer.duration (lines 195 / 623)
advanceCursor(cursor, d) == cursor + d

\* source.start(nextStartTimeRef.current); cursor += duration; sources.add(source)
\* (lines 186-196 / 615-624) for source i of duration d on context c.
Schedule(w, i, d, c, now) ==
  [w EXCEPT !.outTime[c] = now,
            !.sourcesRef = @ \cup {i},
            !.nextStartTimeRef = advanceCursor(@, d),
            !.chain = TRUE]

\* The interrupted branch (lines 200-206 / 626-631).
interrupted(w) ==
  [StopSources(w) EXCEPT !.isMayaSpeaking = IF rev = 2 THEN FALSE ELSE @]

\* The end of onmessage: the interrupted test and branch.
Finish(w, rec) ==
  IF rec.intr
  THEN LET w1 == interrupted(w) IN
       [w1 EXCEPT !.afterIntr = "armed",
                  !.intrClean = (@ /\ w1.sourcesRef = {} /\ w1.nextStartTimeRef = 0
                                   /\ w.sourcesRef \subseteq w1.stopCalled)]
  ELSE w

\* The result of running an onmessage call up to its next await: the world, the
\* call's record, whether it threw, whether it ran the interrupted branch.
Ran(w, rec, threw, cut) == [w |-> w, rec |-> rec, threw |-> threw, cut |-> cut]

\* Earlier revision, lines 171-198: the for loop from its head, the parts left
\* being rec.parts, up to the next await.
RECURSIVE PartsEarlier(_, _, _)
PartsEarlier(w, rec, now) ==
  IF rec.parts = <<>> THEN Ran(Finish(w, rec), DoneHandler, FALSE, rec.intr)
  ELSE IF w.outputAudioCtxRef = 0
       THEN PartsEarlier(w, [rec EXCEPT !.parts = Tail(@)], now)
  ELSE LET c == w.outputAudioCtxRef IN
       IF w.outCtx[c] = "suspended"
       THEN Ran(w, [rec EXCEPT !.pc = "resume", !.obj = c], FALSE, FALSE)
       ELSE Ran(Raise(w, rec, c, now),
                [rec EXCEPT !.pc = "decode", !.first = FALSE,
                            !.kept = w.nextStartTimeRef > now], FALSE, FALSE)

\* Later revision, lines 610-614: only parts[0] is looked at.
PartsLater(w, rec, now) ==
  IF rec.parts = <<>> THEN Ran(Finish(w, rec), DoneHandler, FALSE, rec.intr)
  ELSE Ran(Raise([w EXCEPT !.isMayaSpeaking = TRUE], rec, rec.k, now),
           [rec EXCEPT !.pc = "decode", !.parts = <<Head(@)>>, !.first = FALSE,
                       !.kept = w.nextStartTimeRef > now], FALSE, FALSE)

\* The context whose clock an onmessage call reads: the one the reference names
\* (earlier revision), the outputCtx of the closure (later revision).
ClockOf(w, rec) == IF rev = 1 THEN w.outputAudioCtxRef ELSE rec.k

\* After `await decodeAudioData(...)` (lines 186-197 / 615-625): source i is
\* created, started and added.  The earlier revision dereferences
\* outputAudioCtxRef.current, a TypeError when it has been nulled; it then goes
\* round the loop, the later revision goes to the interrupted test.
AfterDecode(w, rec, i, now) ==
  LET c == ClockOf(w, rec)
      d == Head(rec.parts)
      w1 == Schedule(w, i, d, c, now)
      rec1 == [rec EXCEPT !.parts = Tail(@)]
  IN IF c = 0 THEN Ran(w, DoneHandler, TRUE, FALSE)
     ELSE IF rev = 1 THEN PartsEarlier(w1, rec1, now)
     ELSE Ran(Finish(w1, rec1), DoneHandler, FALSE, rec.intr)

\* ------------------------------------------------------ the message history
HistoryCap == 50      \* the later revision keeps the last 50 messages
CondenseMin == 4      \* condenseHistory does nothing on fewer messages

\* A message of the history (types.ts).  id is 0 in the earlier revision, whose
\* messages have none; imageUrl is "none" when the field is not set.
Message(id, role, text, imageUrl) ==
  [id |-> id, role |-> role, text |-> text, timestamp |-> "Date",
   imageUrl |-> imageUrl]

RECURSIVE MaxId(_)
MaxId(msgs) == IF msgs = <<>> THEN 0 ELSE Max(Head(msgs).id, MaxId(Tail(msgs)))

\* Math.random().toString(36).substr(2, 9) (line 485): an id no message has
freshId(msgs) == MaxId(msgs) + 1

\* the history kept whole: what addMessage would keep without its slice
sliceAll(msgs, n) == msgs

\* Array.prototype.slice(-n)
slice(msgs, n) ==
  IF Len(msgs) <= n THEN msgs ELSE SubSeq(msgs, Len(msgs) - n + 1, Len(msgs))

\* addMessage (lines 49-51 / 483-492), as the updater it hands to setMessages
addMessage(prev, role, text, imageUrl) ==
  IF rev = 1 THEN Append(prev, Message(0, role, text, "none"))
  ELSE slice(Append(prev, Message(freshId(prev), role, text, imageUrl)), HistoryCap)

\* deleteMessage (lines 494-496), as its updater
deleteMessage(prev, id) == SelectSeq(prev, LAMBDA m : m.id # id)

\* The localStorage item: absent, or a string that is not JSON ("garbage"), JSON
\* that is not an array ("object"), or the JSON of an array.
NoItem == [kind |-> "absent", items |-> <<>>]

\* JSON.stringify of a message: the Date becomes its ISO string.
toJSON(m) == [m EXCEPT !.timestamp = "ISO string"]
stringify(msgs) ==
  [kind |-> "array", items |-> [i \in 1..Len(msgs) |-> toJSON(msgs[i])]]

\* The useState initialiser of messages (lines 434-445): the saved array with
\* the dates rebuilt and an id given to a message that has none; the empty list
\* for anything else.  The earlier revision starts empty (line 21).
revive(items, i) ==
  [items[i] EXCEPT !.timestamp = "Date",
                   !.id = IF @ = 0 THEN MaxId(items) + i ELSE @]
\* An initialiser that reports an unreadable store as a message.
initialMessagesReporting(st) ==
  IF rev = 1 \/ st.kind = "absent" THEN <<>>
  ELSE IF st.kind # "array"
  THEN <<Message(1, "maya", <<"[System Link Failure]">>, "none")>>
  ELSE [i \in 1..Len(st.items) |-> revive(st.items, i)]

initialMessages(st) ==
  IF rev = 1 \/ st.kind # "array" THEN <<>>
  ELSE [i \in 1..Len(st.items) |-> revive(st.items, i)]

\* an effect that writes nothing
persistedNever(msgs) == store

\* The effect on [messages] (lines 466-471): the later revision writes the list
\* under the key after every render that changed it.  setItem is taken to
\* succeed.
persisted(msgs) == IF rev = 2 THEN stringify(msgs) ELSE store

\* setMessages and the effect run that follows it
SetMessages(msgs) ==
  /\ messages' = msgs
  /\ store' = persisted(msgs)

\* handleApiError (lines 535-542): a system message, by the text of the error
\* ("quota": it names 429 or the quota; "other").  The specifications try one
\* error.
ErrorsTried == {"other"}
handleApiError(prev, e) ==
  addMessage(prev, "maya",
             IF e = "quota" THEN <<"[System: Neural Link saturated.]">>
             ELSE <<"[System Link Failure]">>, "none")

\* ------------------------------------------------------------------ Init
\* a generateContent call: not made, in flight or settled; who made it, in which mode
NoRequest == [pc |-> "idle", kind |-> "none", mode |-> "LIVE"]

\* no prompt in flight, no transcript, no frame
TextAtRest ==
  /\ isThinking = FALSE
  /\ req = [r \in ReqIds |-> NoRequest]
  /\ currentInputTranscription = <<>>
  /\ currentOutputTranscription = <<>>
  /\ lastFrame = [data |-> <<>>, int16 |-> <<>>]
  /\ nForgets = 0

\* the component is mounted with this history and the first effects have run
Mounted(msgs) ==
  /\ mounted = TRUE
  /\ messages = msgs
  /\ store = IF rev = 2 THEN stringify(msgs) ELSE NoItem

NewStart == [pc |-> "new", capActive |-> FALSE, obj |-> 0, failed |-> FALSE,
             hit |-> FALSE]
IdleSlot == [pc |-> "idle", obj |-> 0, awaiter |-> 0, era |-> 0]

\* no live session has been started yet
LiveAtRest ==
  /\ alertShown = FALSE
  /\ mode = "LIVE"
  /\ isActive = FALSE
  /\ isMayaSpeaking = FALSE
  /\ sessionRef = 0 /\ streamRef = 0
  /\ inputAudioCtxRef = 0 /\ outputAudioCtxRef = 0
  /\ nextStartTimeRef = 0
  /\ sourcesRef = {}
  /\ stopCalled = {}
  /\ inCtx = [k \in Starts |-> "none"]
  /\ outCtx = [k \in Starts |-> "none"]
  /\ outTime = [k \in Starts |-> 0]
  /\ track = [k \in Starts |-> "none"]
  /\ sess = [k \in Starts |-> "none"]
  /\ closeCalls = [k \in Starts |-> 0]
  /\ chain = FALSE
  /\ afterIntr = "none"
  /\ intrClean = TRUE
  /\ start = [k \in Starts |-> NewStart]
  /\ nStarts = 0
  /\ stop = [j \in Slots |-> IdleSlot]
  /\ pipeline = [k \in Starts |-> 0]
  /\ sentOnNull = FALSE
  /\ errored = {}
  /\ hd = [h \in Handlers |-> NewHandler]
  /\ src = <<>>
  /\ last = NoCall
  /\ unhandled = FALSE

Init ==
  /\ rev \in Revs
  /\ apiKey \in BOOLEAN
  /\ horizon = 0
  /\ msgsLeft = LifeMsgs
  /\ LiveAtRest
  /\ TextAtRest
  /\ Mounted(<<>>)

\* The playback specification starts from a session that has just become Active:
\* one start, contexts running, microphone live, session open and stored, the
\* message of onopen (later revision) in the history; the clocks read up to hz,
\* n messages are still to come.
Active(hz, n) ==
  /\ rev \in Revs
  /\ apiKey = TRUE
  /\ horizon = hz
  /\ alertShown = FALSE
  /\ mode = "LIVE"
  /\ isActive = TRUE
  /\ isMayaSpeaking = FALSE
  /\ sessionRef = 1 /\ streamRef = 1
  /\ inputAudioCtxRef = 1 /\ outputAudioCtxRef = 1
  /\ nextStartTimeRef = 0
  /\ sourcesRef = {}
  /\ stopCalled = {}
  /\ inCtx = [k \in Starts |-> IF k = 1 THEN "running" ELSE "none"]
  /\ outCtx = [k \in Starts |-> IF k = 1 THEN "running" ELSE "none"]
  /\ outTime = [k \in Starts |-> 0]
  /\ track = [k \in Starts |-> IF k = 1 THEN "live" ELSE "none"]
  /\ sess = [k \in Starts |-> IF k = 1 THEN "open" ELSE "none"]
  /\ closeCalls = [k \in Starts |-> 0]
  /\ chain = FALSE
  /\ afterIntr = "none"
  /\ intrClean = TRUE
  /\ start = [k \in Starts |-> IF k = 1 THEN [NewStart EXCEPT !.pc = "done"]
                                ELSE NewStart]
  /\ nStarts = 1
  /\ stop = [j \in Slots |-> IdleSlot]
  /\ pipeline = [k \in Starts |-> IF k = 1 THEN 1 ELSE 0]
  /\ sentOnNull = FALSE
  /\ errored = {}
  /\ hd = [h \in Handlers |-> NewHandler]
  /\ msgsLeft = n
  /\ src = <<>>
  /\ last = NoCall
  /\ unhandled = FALSE
  /\ TextAtRest
  /\ Mounted(IF rev = 2
             THEN addMessage(<<>>, "maya", <<"[System: Neural Link established.]">>,
                             "none")
             ELSE <<>>)

InitPlay == Active(MaxTime, MaxMsgs)

\* ------------------------------------------- invoking and resuming stopSession
FreeSlots == {j \in Slots : stop[j].pc = "idle"}

\* The continuation of `await stopSession()` in startLiveSession is queued: it runs
\* before any other handler.
Ready == \A k \in Starts : start[k].pc \notin {"stopOk", "stopErr"}

\* A stopSession call of the later revision has run up to r (the result of one of
\* the Stop...Later operators) in slot j; aw is the startLiveSession call awaiting
\* it (0: nobody, the promise is dropped); st is the start table to update.  The
\* slot keeps era, the number of startLiveSession calls made before the
\* stopSession call was.
StopOutcome(r, j, aw, st) ==
  LET over == r.at \in {"done", "threw"} IN
  /\ Commit(r.w)
  /\ stop' = [stop EXCEPT ![j] = IF over THEN IdleSlot
                                 ELSE [pc |-> r.at, obj |-> r.obj, awaiter |-> aw,
                                       era |-> IF stop[j].pc = "idle" THEN nStarts
                                               ELSE stop[j].era]]
  /\ start' = IF over /\ aw # 0
              THEN [st EXCEPT ![aw].pc = IF r.at = "done" THEN "stopOk" ELSE "stopErr"]
              ELSE st
  /\ unhandled' = (unhandled \/ (r.at = "threw" /\ aw = 0))

\* stopSession() called with nobody awaiting it, from world w.  Every
\* startLiveSession call suspended at an await then is marked (hit).
InvokeStop(w, st) ==
  LET marked == [k \in Starts |-> IF st[k].pc \in {"new", "done"} THEN st[k]
                                  ELSE [st[k] EXCEPT !.hit = TRUE]]
  IN IF rev = 1
     THEN /\ Commit(stopSessionEarlier(w))
          /\ start' = marked
          /\ UNCHANGED <<stop, unhandled>>
     ELSE /\ FreeSlots # {}
          /\ StopOutcome(stopSessionLater(w), CHOOSE j \in FreeSlots : TRUE, 0, marked)

\* catch (err) { stopSession(); } of startLiveSession call k (lines 219-222 / 638)
CatchStart(w, k) ==
  InvokeStop(w, [start EXCEPT ![k] = [@ EXCEPT !.pc = "done", !.obj = 0,
                                                !.failed = TRUE]])

\* ------------------------------------------------------- startLiveSession
\* Earlier revision, lines 100-111: from setIsActive(true) to the first await.
\* ci, co: what creating the input and the output context does.
startLiveSessionEarlier(k, ci, co) ==
  LET w1 == [World EXCEPT !.isActive = TRUE]
      w2 == [w1 EXCEPT !.inCtx[k] = ci, !.inputAudioCtxRef = k]
      w3 == [w2 EXCEPT !.outCtx[k] = co, !.outputAudioCtxRef = k]
      st == [start EXCEPT ![k].capActive = isActive]
  IN
  IF ci = "fail" THEN CatchStart(w1, k)
  ELSE IF co = "fail" THEN CatchStart(w2, k)
  ELSE /\ Commit(w3)
       /\ start' = [st EXCEPT ![k].pc = IF ci = "suspended" THEN "resIn"
                                         ELSE IF co = "suspended" THEN "resOut"
                                         ELSE "gum",
                              ![k].obj = IF ci = "suspended" \/ co = "suspended"
                                          THEN k ELSE 0]
       /\ UNCHANGED <<stop, unhandled>>

\* Later revision, line 573: `await stopSession()`.
startLiveSessionLater(k) ==
  /\ FreeSlots # {}
  /\ StopOutcome(stopSessionLater(World), CHOOSE j \in FreeSlots : TRUE, k,
                 [start EXCEPT ![k] = [@ EXCEPT !.pc = "stop", !.capActive = isActive]])

\* A startLiveSession that skips the credential check.
credentialIgnored == FALSE

\* The credential check of startLiveSession (lines 95-98 / 572).
credentialMissing == ~apiKey

\* The start/stop button while it shows "start" (lines 360 / 729: isActive is
\* false in the render): startLiveSession.
ClickStart ==
  /\ Ready
  /\ ~isActive
  /\ IF credentialMissing
     THEN /\ alertShown' = TRUE
          /\ UNCHANGED <<worldVars, start, nStarts, stop, unhandled>>
     ELSE /\ nStarts < MaxStarts
          /\ nStarts' = nStarts + 1
          /\ UNCHANGED alertShown
          /\ IF rev = 1
             THEN \E ci, co \in Creations(rev) :
                    startLiveSessionEarlier(nStarts + 1, ci, co)
             ELSE startLiveSessionLater(nStarts + 1)
  /\ UNCHANGED <<envVars, textVars, mode, pipeline, sentOnNull, errored, msgVars>>

\* Later revision, lines 574-583: after `await stopSession()` returned.  The two
\* contexts are created before either reference is assigned.
StartAfterStop(k) ==
  /\ rev = 2
  /\ start[k].pc = "stopOk"
  /\ \E ci, co \in Creations(rev) :
       LET w1 == [World EXCEPT !.isActive = TRUE]
           w2 == [w1 EXCEPT !.inCtx[k] = ci]
           w3 == [w2 EXCEPT !.outCtx[k] = co, !.inputAudioCtxRef = k,
                            !.outputAudioCtxRef = k]
       IN IF ci = "fail" THEN CatchStart(w1, k)
          ELSE IF co = "fail" THEN CatchStart(w2, k)
          ELSE /\ Commit(w3)
               /\ start' = [start EXCEPT ![k].pc = "gum"]
               /\ UNCHANGED <<stop, unhandled>>
  /\ UNCHANGED <<envVars, textVars, uiVars, msgVars>>

\* Later revision: `await stopSession()` threw, the catch calls stopSession().
StartStopThrew(k) ==
  /\ rev = 2
  /\ start[k].pc = "stopErr"
  /\ CatchStart(World, k)
  /\ UNCHANGED <<envVars, textVars, uiVars, msgVars>>

\* Earlier revision, lines 108-109: `await inputAudioCtxRef.current.resume()` has
\* settled (ok: it resolved).  A context closed meanwhile rejects the resume.  The
\* next statement reads outputAudioCtxRef.current.state: a TypeError when
\* stopSession nulled the reference meanwhile.
ResumeInputSettles(k, ok) ==
  /\ Ready
  /\ rev = 1
  /\ start[k].pc = "resIn"
  /\ LET c == start[k].obj
         w1 == [World EXCEPT !.inCtx[c] = "running"]
         o == outputAudioCtxRef
     IN IF ~ok \/ inCtx[c] # "suspended"
        THEN CatchStart(World, k)
        ELSE IF o = 0 THEN CatchStart(w1, k)
        ELSE /\ Commit(w1)
             /\ start' = [start EXCEPT ![k].pc = IF outCtx[o] = "suspended"
                                                 THEN "resOut" ELSE "gum",
                                      ![k].obj = IF outCtx[o] = "suspended"
                                                  THEN o ELSE 0]
             /\ UNCHANGED <<stop, unhandled>>
  /\ UNCHANGED <<envVars, textVars, uiVars, msgVars>>

\* Earlier revision, line 109: `await outputAudioCtxRef.current.resume()` settled.
ResumeOutputSettles(k, ok) ==
  /\ Ready
  /\ rev = 1
  /\ start[k].pc = "resOut"
  /\ LET c == start[k].obj IN
     IF ~ok \/ outCtx[c] # "suspended"
     THEN CatchStart(World, k)
     ELSE /\ Commit([World EXCEPT !.outCtx[c] = "running"])
          /\ start' = [start EXCEPT ![k].pc = "gum", ![k].obj = 0]
          /\ UNCHANGED <<stop, unhandled>>
  /\ UNCHANGED <<envVars, textVars, uiVars, msgVars>>

\* getUserMedia resolved (lines 111-114 / 583-586): the stream is stored and
\* ai.live.connect is called.
GetUserMediaResolves(k) ==
  /\ Ready
  /\ start[k].pc = "gum"
  /\ Commit([World EXCEPT !.track[k] = "live", !.streamRef = k, !.sess[k] = "connecting"])
  /\ start' = [start EXCEPT ![k].pc = "conn"]
  /\ UNCHANGED <<envVars, textVars, uiVars, msgVars, stop, unhandled>>

\* getUserMedia rejected (permission denied): the catch.
GetUserMediaRejects(k) ==
  /\ Ready
  /\ start[k].pc = "gum"
  /\ CatchStart(World, k)
  /\ UNCHANGED <<envVars, textVars, uiVars, msgVars>>

\* onopen (lines 126-150 / 594-608): the capture graph is built on the input
\* context, read through the reference in the earlier revision (nothing is built
\* when it is null) and from the closure in the later one.
onopen(k) == IF rev = 1 THEN inputAudioCtxRef ELSE k

\* the state of the text side that the live session never writes
quietVars == <<mounted, isThinking, req, lastFrame, nForgets>>

\* The later revision's onopen ends with a system message (line 607).
onopenSays ==
  IF rev = 2
  THEN SetMessages(addMessage(messages, "maya",
                              <<"[System: Neural Link established.]">>, "none"))
  ELSE UNCHANGED histVars

\* The handshake completed: onopen runs, then `sessionRef.current = await
\* sessionPromise` (lines 218 / 637).
ConnectResolves(k) ==
  /\ Ready
  /\ start[k].pc = "conn"
  /\ sess[k] = "connecting"
  /\ pipeline' = [pipeline EXCEPT ![k] = onopen(k)]
  /\ Commit([World EXCEPT !.sess[k] = "open", !.sessionRef = k])
  /\ start' = [start EXCEPT ![k].pc = "done"]
  /\ onopenSays
  /\ UNCHANGED <<envVars, quietVars, turnVars, alertShown, mode, nStarts, sentOnNull,
                 errored, msgVars, stop, unhandled>>

\* The handshake failed: sessionPromise rejects, the catch runs.
ConnectRejects(k) ==
  /\ Ready
  /\ start[k].pc = "conn"
  /\ sess[k] # "open"
  /\ CatchStart([World EXCEPT !.sess[k] = "closed"], k)
  /\ UNCHANGED <<envVars, textVars, uiVars, msgVars>>

\* ------------------------------------------------------ remote callbacks
\* onerror (lines 208-211 / 633): the transport failed; its close event follows.
\* The earlier revision logs the error, the later one hands it to handleApiError;
\* both then call stopSession.
onerror(k) ==
  /\ Ready
  /\ sess[k] \in {"connecting", "open"}
  /\ errored' = errored \cup {k}
  /\ IF rev = 2 THEN \E e \in ErrorsTried : SetMessages(handleApiError(messages, e))
     ELSE UNCHANGED histVars
  /\ InvokeStop([World EXCEPT !.sess[k] = "closing"], start)
  /\ UNCHANGED <<envVars, quietVars, turnVars, alertShown, mode, nStarts, pipeline,
                 sentOnNull, msgVars>>

\* The test onclose makes before calling stopSession: the session reference in the
\* earlier revision (line 213), the isActive of the render that created
\* startLiveSession in the later one (line 634).
oncloseStops(k) == IF rev = 1 THEN sessionRef # 0 ELSE start[k].capActive

\* onclose (lines 212-214 / 634): the remote side closed, or close() completed.
onclose(k) ==
  /\ Ready
  /\ sess[k] \in {"open", "closing"}
  /\ LET w == [World EXCEPT !.sess[k] = "closed"] IN
     IF oncloseStops(k)
     THEN InvokeStop(w, start)
     ELSE /\ Commit(w)
          /\ UNCHANGED <<start, stop, unhandled>>
  /\ UNCHANGED <<envVars, textVars, uiVars, msgVars>>

\* ------------------------------------------------------------ user events
\* The start/stop button while it shows "stop" (lines 360 / 729).
ClickStop ==
  /\ Ready
  /\ isActive
  /\ InvokeStop(World, start)
  /\ UNCHANGED <<envVars, textVars, uiVars, msgVars>>

\* A mode button (lines 389-392 / 744): the earlier revision stops only an active
\* session, the later one calls stopSession() every time.
ModeSwitch(m) ==
  /\ Ready
  /\ m \in Modes(rev)
  /\ mode' = m
  /\ IF rev = 1 /\ ~isActive
     THEN UNCHANGED <<worldVars, start, stop, unhandled>>
     ELSE InvokeStop(World, start)
  /\ UNCHANGED <<envVars, textVars, alertShown, nStarts, pipeline, sentOnNull, errored, msgVars>>

\* ------------------------------------- stopSession (later revision) resumes
\* `await sessionRef.current.close()` returned (line 550).
StopAfterSessionClose(j) ==
  /\ Ready
  /\ stop[j].pc = "sess"
  /\ StopOutcome(StopAfterSessionLater(World), j, stop[j].awaiter, start)
  /\ UNCHANGED <<envVars, textVars, uiVars, msgVars>>

\* An input context finished closing: its state is "closed"; the stopSession call
\* awaiting it (line 558) goes on.
InputCtxClosed(c) ==
  /\ Ready
  /\ inCtx[c] = "closing"
  /\ LET w == [World EXCEPT !.inCtx[c] = "closed"]
         waiting == {j \in Slots : stop[j].pc = "in" /\ stop[j].obj = c}
     IN IF waiting = {}
        THEN /\ Commit(w)
             /\ UNCHANGED <<start, stop, unhandled>>
        ELSE LET j == CHOOSE j \in waiting : TRUE IN
             StopOutcome(StopAfterInputLater(w), j, stop[j].awaiter, start)
  /\ UNCHANGED <<envVars, textVars, uiVars, msgVars>>

\* An output context finished closing (line 562).
OutputCtxClosed(c) ==
  /\ Ready
  /\ outCtx[c] = "closing"
  /\ LET w == [World EXCEPT !.outCtx[c] = "closed"]
         waiting == {j \in Slots : stop[j].pc = "out" /\ stop[j].obj = c}
     IN IF waiting = {}
        THEN /\ Commit(w)
             /\ UNCHANGED <<start, stop, unhandled>>
        ELSE LET j == CHOOSE j \in waiting : TRUE IN
             StopOutcome(StopAfterOutputLater(w), j, stop[j].awaiter, start)
  /\ UNCHANGED <<envVars, textVars, uiVars, msgVars>>

\* ---------------------------------------------------------------- capture
\* The test before sendRealtimeInput: `if (sessionRef.current)` in the earlier
\* revision (line 142), none in the later one (line 603).
frameSent == IF rev = 1 THEN sessionRef # 0 ELSE TRUE

\* Storing the number num/SampleDen into an Int16Array: the fraction is dropped
\* (towards zero), the integer is taken modulo 2^16 into -32768..32767.
ToInt16(num) ==
  LET t == IF num >= 0 THEN num \div SampleDen ELSE -((-num) \div SampleDen)
      m == t % 65536
  IN IF m >= 32768 THEN m - 65536 ELSE m

\* a conversion that stores the scaled sample as it is
createBlobUnclamped(data) == [i \in DOMAIN data |-> ToInt16(data[i] * 32768)]

\* createBlob (lines 8-18 / 420-430), up to the 16-bit samples that encode() then
\* writes out byte by byte.  A sample data[i] stands for data[i]/SampleDen.  The
\* earlier revision stores data[i] * 32768, the later one
\* Math.max(-32768, Math.min(32767, data[i] * 32768)).
createBlob(data) ==
  [i \in DOMAIN data |->
     LET x == data[i] * 32768
         lo == -32768 * SampleDen
         hi == 32767 * SampleDen
     IN ToInt16(IF rev = 1 THEN x ELSE IF x > hi THEN hi ELSE IF x < lo THEN lo ELSE x)]

\* onaudioprocess (lines 132-146 / 597-604) of the capture graph of start k, with
\* the samples of its input buffer: fires while its input context renders, also
\* between close() and the context being closed.
Captured(k, data) ==
  /\ Ready
  /\ pipeline[k] # 0
  /\ inCtx[pipeline[k]] \in {"running", "closing"}
  /\ lastFrame' = [data |-> data, int16 |-> createBlob(data)]
  /\ sentOnNull' = (sentOnNull \/ (frameSent /\ sessionRef = 0))
  /\ UNCHANGED <<envVars, mounted, histVars, isThinking, req, turnVars, nForgets,
                 alertShown, mode, nStarts, pipeline, errored, worldVars,
                 msgVars, start, stop, unhandled>>

\* the callback on a buffer whose samples are not looked at
onaudioprocess(k) == Captured(k, <<>>)

\* ------------------------------------------------------ onmessage, actions
Pending == {h \in Handlers : hd[h].pc \in {"resume", "decode"}}
FreeHandlers == {h \in Handlers : hd[h].pc = "new"}

\* An onmessage call has run up to r in handler h; made: the source.start call it
\* made, as a sequence of zero or one record, on context c.
HandlerOutcome(r, h, made, c, hds) ==
  /\ Commit(r.w)
  /\ hd' = [x \in Handlers |->
              IF x = h THEN r.rec
              ELSE IF r.cut /\ hds[x].pc = "decode" THEN [hds[x] EXCEPT !.crossed = TRUE]
              ELSE hds[x]]
  /\ src' = IF made = <<>> THEN src
            ELSE Append(src, Started(made[1].t, made[1].d, made[1].at, c))
  /\ last' = IF made = <<>> THEN last ELSE made[1]
  /\ unhandled' = (unhandled \/ r.threw)

\* The transcript fragments a message can carry; <<>>: none, or an empty text.
Fragments == {<<>>, <<"a">>, <<"b">>}

\* a flush that writes the assistant's message first
flushMayaFirst(prev, userInput, mayaOutput) ==
  LET m == IF mayaOutput # <<>> THEN addMessage(prev, "maya", mayaOutput, "none")
           ELSE prev
  IN IF userInput # <<>> THEN addMessage(m, "user", userInput, "none") ELSE m

\* Earlier revision, lines 160-164: at turnComplete each buffer that holds text
\* becomes a message, the user's first.
flush(prev, userInput, mayaOutput) ==
  LET u == IF userInput # <<>> THEN addMessage(prev, "user", userInput, "none")
           ELSE prev
  IN IF mayaOutput # <<>> THEN addMessage(u, "maya", mayaOutput, "none") ELSE u

\* An onmessage that puts a fragment in front of what its buffer holds.
onTranscriptPrepends(tin, tout, turn) ==
  LET userInput == tin \o currentInputTranscription
      mayaOutput == tout \o currentOutputTranscription
  IN IF rev = 2 THEN UNCHANGED <<turnVars, histVars>>
     ELSE IF turn
     THEN /\ SetMessages(flush(messages, userInput, mayaOutput))
          /\ currentInputTranscription' = <<>>
          /\ currentOutputTranscription' = <<>>
     ELSE /\ currentInputTranscription' = userInput
          /\ currentOutputTranscription' = mayaOutput
          /\ UNCHANGED histVars

\* Earlier revision, lines 153-167: the fragments are appended to the buffers; at
\* turnComplete the buffers are flushed and emptied.  The later revision's
\* onmessage reads no transcript.
onTranscript(tin, tout, turn) ==
  LET userInput == currentInputTranscription \o tin
      mayaOutput == currentOutputTranscription \o tout
  IN IF rev = 2 THEN UNCHANGED <<turnVars, histVars>>
     ELSE IF turn
     THEN /\ SetMessages(flush(messages, userInput, mayaOutput))
          /\ currentInputTranscription' = <<>>
          /\ currentOutputTranscription' = <<>>
     ELSE /\ currentInputTranscription' = userInput
          /\ currentOutputTranscription' = mayaOutput
          /\ UNCHANGED histVars

\* A message arrives on session k (lines 151 / 609) with these transcript
\* fragments and turnComplete flag, audio parts of these durations and this
\* interrupted flag; the handler runs to its first await.
Delivered(k, parts, intr, tin, tout, turn) ==
  /\ Ready
  /\ sess[k] = "open"
  /\ msgsLeft > 0
  /\ msgsLeft' = msgsLeft - 1
  /\ LET h == CHOOSE x \in FreeHandlers : \A y \in FreeHandlers : x <= y
         rec == [NewHandler EXCEPT !.k = k, !.parts = parts, !.intr = intr,
                                   !.seq = (Pending = {}),
                                   !.first = (parts # <<>> /\ afterIntr = "armed")]
         w == [World EXCEPT !.afterIntr = IF rec.first THEN "taken" ELSE @]
         hds == [x \in Handlers |-> IF x \in Pending THEN [hd[x] EXCEPT !.seq = FALSE]
                                    ELSE hd[x]]
     IN \E now \in Reads(w, ClockOf(w, rec)) :
          HandlerOutcome(IF rev = 1 THEN PartsEarlier(w, rec, now)
                         ELSE PartsLater(w, rec, now), h, <<>>, 0, hds)
  /\ onTranscript(tin, tout, turn)
  /\ UNCHANGED <<envVars, quietVars, uiVars, start, stop>>

\* a message that carries audio only
OnMessage(k, parts, intr) == Delivered(k, parts, intr, <<>>, <<>>, FALSE)

\* Earlier revision, lines 175-179: `await outputAudioCtxRef.current.resume()`
\* settled; a context closed meanwhile rejects it.  The next statement reads
\* outputAudioCtxRef.current.currentTime.
MessageAfterResume(h) ==
  /\ Ready
  /\ hd[h].pc = "resume"
  /\ LET c == hd[h].obj
         w1 == [World EXCEPT !.outCtx[c] = "running"]
         o == outputAudioCtxRef
     IN IF outCtx[c] # "suspended"
        THEN HandlerOutcome(Ran(World, DoneHandler, TRUE, FALSE), h, <<>>, 0, hd)
        ELSE IF o = 0
        THEN HandlerOutcome(Ran(w1, DoneHandler, TRUE, FALSE), h, <<>>, 0, hd)
        ELSE \E now \in Reads(w1, o) :
               HandlerOutcome(Ran(Raise(w1, hd[h], o, now),
                                  [hd[h] EXCEPT !.pc = "decode", !.obj = 0,
                                                !.first = FALSE,
                                                !.kept = nextStartTimeRef > now],
                                  FALSE, FALSE), h, <<>>, 0, hd)
  /\ UNCHANGED <<envVars, textVars, uiVars, start, stop, msgsLeft>>

\* `await decodeAudioData(...)` resolved (lines 180-197 / 614-625).
MessageAfterDecode(h) ==
  /\ Ready
  /\ hd[h].pc = "decode"
  /\ LET c == ClockOf(World, hd[h])
         i == Len(src) + 1
     IN \E now \in Reads(World, c) :
          HandlerOutcome(AfterDecode(World, hd[h], i, now), h,
                         IF c = 0 THEN <<>>
                         ELSE <<StartCall(nextStartTimeRef, Head(hd[h].parts), now,
                                          hd[h].seq /\ chain, last, h,
                                          \E x \in Pending : x < h)>>, c, hd)
  /\ UNCHANGED <<envVars, textVars, uiVars, start, stop, msgsLeft>>

\* An 'ended' listener that leaves the source in the set.
endedKeeps(w, i) == w

\* The 'ended' listener (lines 190-192 / 618-621).
ended(w, i) ==
  LET left == w.sourcesRef \ {i} IN
  [w EXCEPT !.sourcesRef = left,
            !.isMayaSpeaking = IF rev = 2 /\ left = {} THEN FALSE ELSE @]

\* Source i ends: stop() was called on it, or it played to its end (the clock of
\* its context reads now).
SourceEnded(i) ==
  /\ Ready
  /\ i \in 1..Len(src)
  /\ src[i].state = "started"
  /\ LET c == src[i].ctx IN
     \/ /\ i \in stopCalled
        /\ Commit(ended([World EXCEPT !.stopCalled = @ \ {i}], i))
     \/ /\ i \notin stopCalled
        /\ \E now \in Reads(World, c) :
             /\ now >= src[i].end
             /\ Commit(ended([World EXCEPT !.outTime[c] = now], i))
  /\ src' = [src EXCEPT ![i] = EndedSource]
  /\ UNCHANGED <<envVars, textVars, uiVars, start, stop, hd, msgsLeft, last, unhandled>>

\* ------------------------------------------------------------ text prompts
\* The generateContent calls in flight
InFlight(kind) == {r \in ReqIds : req[r].pc = "flight" /\ req[r].kind = kind}

\* Enter in the text input, which takes keys unless it is disabled (lines 308 /
\* 845: disabled={mode === LIVE || isThinking}): handleDeepPrompt(text) up to its
\* await (lines 225-233 / 641-647).  A blank text returns at once, and so does
\* the later revision when isThinking is set (line 642); the earlier revision
\* has no such test (line 226).  In every mode the input is enabled in, one
\* generateContent call is made.
handleDeepPrompt(text) ==
  /\ mounted
  /\ mode # "LIVE" /\ ~isThinking
  /\ \E r \in ReqIds :
       /\ req[r].pc = "idle"
       /\ \A q \in ReqIds : req[q].pc = "idle" => r <= q
       /\ IF text = <<>> \/ (rev = 2 /\ isThinking)
          THEN UNCHANGED <<histVars, isThinking, req>>
          ELSE /\ isThinking' = TRUE
               /\ SetMessages(addMessage(messages, "user", text, "none"))
               /\ req' = [req EXCEPT ![r] = [pc |-> "flight", kind |-> "prompt",
                                             mode |-> mode]]
  /\ UNCHANGED <<liveVars, mounted, turnVars, lastFrame, nForgets>>

\* The "Summarize Pathways" button: condenseHistory up to its await (lines
\* 505-516), later revision.
condenseHistory ==
  /\ mounted
  /\ rev = 2
  /\ \E r \in ReqIds :
       /\ req[r].pc = "idle"
       /\ \A q \in ReqIds : req[q].pc = "idle" => r <= q
       /\ IF Len(messages) < CondenseMin
          THEN UNCHANGED <<isThinking, req>>
          ELSE /\ isThinking' = TRUE
               /\ req' = [req EXCEPT ![r] = [pc |-> "flight", kind |-> "condense",
                                             mode |-> mode]]
  /\ UNCHANGED <<liveVars, mounted, histVars, turnVars, lastFrame, nForgets>>

\* A settled call that says nothing when it failed.
answerSilentOnError(prev, r, out) ==
  IF out # "ok" THEN prev
  ELSE IF rev = 1 THEN addMessage(prev, "maya", <<"response">>, "none")
  ELSE IF req[r].kind = "condense"
       THEN addMessage(prev, "maya", <<"[System: Memory Condensed]">>, "none")
  ELSE IF req[r].mode = "IMAGE"
       THEN addMessage(prev, "maya", <<"Vision manifestation complete.">>, "image")
  ELSE addMessage(prev, "maya", <<"response">>, "none")

\* What a settled call appends.  out is "ok", or the error "quota" / "other".
\* Earlier revision (lines 253-258): the response text, or the apology of the
\* catch.  Later revision (lines 517-519, 656-680): the summary, the response
\* text or the image; handleApiError's message on an error.
answer(prev, r, out) ==
  IF rev = 1
  THEN addMessage(prev, "maya", IF out = "ok" THEN <<"response">>
                                ELSE <<"Oops, something went wrong.">>, "none")
  ELSE IF out # "ok" THEN handleApiError(prev, out)
  ELSE IF req[r].kind = "condense"
       THEN addMessage(prev, "maya", <<"[System: Memory Condensed]">>, "none")
  ELSE IF req[r].mode = "IMAGE"
       THEN addMessage(prev, "maya", <<"Vision manifestation complete.">>, "image")
  ELSE addMessage(prev, "maya", <<"response">>, "none")

\* `await ai.models.generateContent(...)` settled: the rest of handleDeepPrompt
\* (lines 253-261 / 656-683) or of condenseHistory (lines 517-522), with its
\* finally.
generateContentSettles(r, out) ==
  /\ mounted
  /\ req[r].pc = "flight"
  /\ SetMessages(answer(messages, r, out))
  /\ isThinking' = FALSE
  /\ req' = [req EXCEPT ![r].pc = "settled"]
  /\ UNCHANGED <<liveVars, mounted, turnVars, lastFrame, nForgets>>

\* The "Forget Thought" button of a message (line 812), later revision.
ForgetThought(id) ==
  /\ mounted
  /\ rev = 2
  /\ \E i \in 1..Len(messages) : messages[i].id = id
  /\ nForgets < MaxForgets
  /\ nForgets' = nForgets + 1
  /\ SetMessages(deleteMessage(messages, id))
  /\ UNCHANGED <<liveVars, mounted, isThinking, req, turnVars, lastFrame>>

\* The "Delete All" button (line 770): clearMemories (lines 498-503), later
\* revision, with the answer given to confirm().  setMessages([]) is followed by
\* removeItem; the render that follows runs the effect on [messages], which
\* writes the item again.
clearMemories(ok) ==
  /\ mounted
  /\ rev = 2
  /\ IF ok THEN SetMessages(<<>>) ELSE UNCHANGED histVars
  /\ UNCHANGED <<liveVars, mounted, isThinking, req, turnVars, lastFrame, nForgets>>

\* The first render's effect on [messages] (lines 466-471).
FirstEffect ==
  /\ ~mounted
  /\ mounted' = TRUE
  /\ store' = persisted(messages)
  /\ UNCHANGED <<liveVars, messages, isThinking, req, turnVars, lastFrame, nForgets>>

\* ------------------------------------------------------------------ Next
Next ==
  \/ ClickStart
  \/ ClickStop
  \/ \E m \in ModesTried : ModeSwitch(m)
  \/ \E k \in Starts : StartAfterStop(k)
  \/ \E k \in Starts : StartStopThrew(k)
  \/ \E k \in Starts, ok \in BOOLEAN : ResumeInputSettles(k, ok)
  \/ \E k \in Starts, ok \in BOOLEAN : ResumeOutputSettles(k, ok)
  \/ \E k \in Starts : GetUserMediaResolves(k)
  \/ \E k \in Starts : GetUserMediaRejects(k)
  \/ \E k \in Starts : ConnectResolves(k)
  \/ \E k \in Starts : ConnectRejects(k)
  \/ \E k \in Starts : onerror(k)
  \/ \E k \in Starts : onclose(k)
  \/ \E j \in Slots : StopAfterSessionClose(j)
  \/ \E c \in Starts : InputCtxClosed(c)
  \/ \E c \in Starts : OutputCtxClosed(c)
  \/ \E k \in Starts : onaudioprocess(k)
  \/ \E k \in Starts, parts \in LifeParts : OnMessage(k, parts, FALSE)
  \/ \E h \in Handlers : MessageAfterResume(h)
  \/ \E h \in Handlers : MessageAfterDecode(h)
  \/ \E i \in Sources : SourceEnded(i)

\* The lifecycle specification: every start, stop and callback, few messages (none
\* of them interrupted), the clocks standing still.
Spec == Init /\ [][Next]_vars

\* The playback specification: one Active session, its messages, and the stop
\* button.
NextPlay ==
  \/ \E parts \in PartSeqs, intr \in BOOLEAN : OnMessage(1, parts, intr)
  \/ \E h \in Handlers : MessageAfterDecode(h)
  \/ \E i \in Sources : SourceEnded(i)
  \/ ClickStop
  \/ \E j \in Slots : StopAfterSessionClose(j)
  \/ \E c \in Starts : InputCtxClosed(c)
  \/ \E c \in Starts : OutputCtxClosed(c)

SpecPlay == InitPlay /\ [][NextPlay]_vars

\* The gap specification: the playback specification with fewer messages and a
\* clock that runs past the end of a chunk.
SpecGap == Active(GapTime, GapMsgs) /\ [][NextPlay]_vars

\* The ending specification: one Active session and its messages, no teardown.
\* A source whose end the clock can reach does fire its 'ended' event.
NextEnd ==
  \/ \E parts \in PartSeqs, intr \in BOOLEAN : OnMessage(1, parts, intr)
  \/ \E h \in Handlers : MessageAfterDecode(h)
  \/ \E i \in Sources : SourceEnded(i)

SpecEnd ==
  /\ Active(GapTime, GapMsgs)
  /\ [][NextEnd]_vars
  /\ \A i \in Sources : WF_vars(SourceEnded(i))

\* The transcript specification: the earlier revision, one Active session, its
\* messages carrying transcript fragments and no audio.
InitTurn == InitPlay /\ rev = 1

NextTurn ==
  \E tin \in Fragments, tout \in Fragments, turn \in BOOLEAN :
     Delivered(1, <<>>, FALSE, tin, tout, turn)

SpecTurn == InitTurn /\ [][NextTurn]_vars

\* The conversation specification: the earlier revision, one Active session, its
\* messages carrying transcript fragments and audio, decoded while further
\* messages arrive; the clock stands still.
InitTalk == Active(0, MaxMsgs) /\ rev = 1

NextTalk ==
  \/ \E parts \in {<<>>, <<1>>}, tin \in Fragments, tout \in Fragments, turn \in BOOLEAN :
       Delivered(1, parts, FALSE, tin, tout, turn)
  \/ \E h \in Handlers : MessageAfterDecode(h)

SpecTalk == InitTalk /\ [][NextTalk]_vars

\* The restart specification: the earlier revision, an Active session whose
\* messages carry transcript fragments, the stop button and a second start.
NextRestart ==
  \/ \E k \in Starts, tin \in Fragments, tout \in Fragments, turn \in BOOLEAN :
       Delivered(k, <<>>, FALSE, tin, tout, turn)
  \/ ClickStop
  \/ ClickStart
  \/ \E k \in Starts : ResumeInputSettles(k, TRUE)
  \/ \E k \in Starts : ResumeOutputSettles(k, TRUE)
  \/ \E k \in Starts : GetUserMediaResolves(k)
  \/ \E k \in Starts : ConnectResolves(k)

SpecRestart == InitTalk /\ [][NextRestart]_vars

\* The capture specification: one Active session, its capture callback on frames
\* of FrameLen samples.
NextCapture ==
  \E data \in [1..FrameLen -> -MaxSample..MaxSample] : Captured(1, data)

SpecCapture == InitPlay /\ [][NextCapture]_vars

\* The stores an earlier run of the later revision, or anything else, can have
\* left: no item, text that is not JSON, JSON that is not an array, or a saved
\* history of n messages.
saved(n) ==
  stringify([i \in 1..n |-> Message(i, IF i % 2 = 1 THEN "user" ELSE "maya",
                                    <<"old">>, "none")])
Stores(r) ==
  IF r = 1 THEN {NoItem}
  ELSE {NoItem, [kind |-> "garbage", items |-> <<>>],
        [kind |-> "object", items |-> <<>>]}
       \cup {saved(n) : n \in {0, CondenseMin, HistoryCap - 1, HistoryCap}}

\* The component has rendered once, on store st; no live session.
Rendered(st) ==
  /\ apiKey = TRUE
  /\ horizon = 0
  /\ msgsLeft = 0
  /\ LiveAtRest
  /\ TextAtRest
  /\ mounted = FALSE
  /\ store = st
  /\ messages = initialMessages(st)

\* The text specification: prompts, summaries and mode buttons, on a short
\* history.
InitText ==
  /\ rev \in Revs
  /\ \E st \in {NoItem, saved(CondenseMin)} \cap Stores(rev) : Rendered(st)

NextText ==
  \/ FirstEffect
  \/ \E m \in Modes(rev) : mounted /\ ModeSwitch(m)
  \/ \E text \in {<<>>, <<"prompt">>} : handleDeepPrompt(text)
  \/ condenseHistory
  \/ \E r \in ReqIds, out \in {"ok"} \cup ErrorsTried : generateContentSettles(r, out)

SpecText == InitText /\ [][NextText]_vars

\* The history specification: the later revision mounts on any store; prompts
\* that are answered, deletions (of the oldest or of the newest message),
\* "Delete All".
InitHistory == rev = 2 /\ \E st \in Stores(rev) : Rendered(st)

NextHistory ==
  \/ FirstEffect
  \/ mounted /\ ModeSwitch("DEEP_THOUGHT")
  \/ handleDeepPrompt(<<"prompt">>)
  \/ \E r \in ReqIds : generateContentSettles(r, "ok")
  \/ \E i \in {1, Len(messages)} \cap DOMAIN messages : ForgetThought(messages[i].id)
  \/ \E ok \in BOOLEAN : clearMemories(ok)

SpecHistory == InitHistory /\ [][NextHistory]_vars

\* ============================================================ properties
Released ==
  /\ sessionRef = 0 /\ streamRef = 0
  /\ inputAudioCtxRef = 0 /\ outputAudioCtxRef = 0

\* Idle: the active indicator off, every reference null, nothing scheduled.
Idle == ~isActive /\ Released /\ sourcesRef = {} /\ nextStartTimeRef = 0

\* the same of a world value
IdleWorld(w) ==
  /\ ~w.isActive
  /\ w.sessionRef = 0 /\ w.streamRef = 0
  /\ w.inputAudioCtxRef = 0 /\ w.outputAudioCtxRef = 0
  /\ w.sourcesRef = {} /\ w.nextStartTimeRef = 0

\* No startLiveSession call and no stopSession call is suspended.
Settled ==
  /\ \A k \in Starts : start[k].pc \in {"new", "done"}
  /\ \A j \in Slots : stop[j].pc = "idle"

LiveCtx == {"suspended", "running"}

\* ---- C1 (playback specification)
\* C1: when onmessage calls handle audio chunks one after the other, with no
\* interruption and no teardown in between, every source.start(t) is given a t
\* that is at least the previous call's t plus the previous chunk's duration (so
\* the start times never decrease).
C1_SequentialStarts == last.seq => last.t >= last.prevEnd

\* a second chunk has been started in sequence after a first one
C1_Witness == last.seq /\ last.prevEnd > 0 /\ Len(src) >= 2

\* ---- C2 (playback specification)
\* C2 as stated: every source.start(t) is given a t that is not less than the
\* output clock at the moment of the call, whatever time the decode took.
C2_StartNotInPast == last.d > 0 => last.t >= last.at

\* ---- C3 (playback specification)
\* C3 as stated: every interrupted branch called stop() on each source of the
\* active set, left the set empty and the cursor 0, and the first chunk arriving
\* after an interruption got the clock's current time as its cursor.
C3_InterruptionResets == intrClean /\ afterIntr # "stale"

\* ---- C4
\* what a stopSession() call made now returns with, and how
stopSessionNow ==
  IF rev = 1 THEN [w |-> stopSessionEarlier(World), at |-> "done"]
  ELSE stopSessionLater(World)

C5_OneStreamOneSession ==
  /\ Cardinality({k \in Starts : track[k] = "live"}) <= 1
  /\ Cardinality({k \in Starts : sess[k] = "open"}) <= 1

\* ---- C6
\* C6 as stated: no frame is sent with sendRealtimeInput while sessionRef is null.
C6_NoFrameOnNullSession == ~sentOnNull

\* ---- C7
\* C7 as stated, in its finite form: once the onclose callback of the Active
\* session has run, stopSession has been invoked, so that session is no longer
\* referenced with the active indicator on.
C7_CloseStopsSession ==
  \A k \in Starts : sess[k] = "closed" => ~(sessionRef = k /\ isActive)

\* ---- C8
\* the latest session's onerror has fired, and its start call and every
\* stopSession call have run to completion
SettledAfterError ==
  /\ nStarts \in errored
  /\ start[nStarts].pc = "done"
  /\ \A j \in Slots : stop[j].pc = "idle"

\* C8 as stated: a step in which onerror fires invokes stopSession (the active
\* indicator goes off), and the step that completes the start call and the
\* teardown of a session whose onerror fired leaves the system Idle.
C8_ErrorTearsDown ==
  [][/\ \A k \in Starts : onerror(k) => ~isActive'
     /\ (~SettledAfterError /\ SettledAfterError') => Idle']_vars

\* ---- C9
\* C9: a start click with no API credential shows the alert and changes nothing
\* else: the system stays Idle, nothing is created or requested.
C9_NoCredential ==
  [][(ClickStart /\ ~apiKey) =>
       /\ alertShown'
       /\ UNCHANGED <<worldVars, start, stop, nStarts, pipeline, msgVars, unhandled>>
       /\ Idle']_vars

\* the alert has been shown and nothing exists
C9_Witness ==
  /\ ~apiKey /\ alertShown /\ Idle /\ nStarts = 0
  /\ \A k \in Starts : inCtx[k] = "none" /\ track[k] = "none" /\ sess[k] = "none"

\* ---- C10
\* C10 as stated: once a start call that failed and every teardown have run to
\* completion, the system is Idle and what that start had acquired is released:
\* its microphone track is not live, its contexts are closed or closing.
C10_FailedStartReleases ==
  \A k \in Starts :
    (start[k].failed /\ nStarts = k /\ Settled) =>
      /\ ~isActive /\ Released
      /\ track[k] # "live"
      /\ inCtx[k] \notin LiveCtx /\ outCtx[k] \notin LiveCtx

\* C11: earlier revision.  A turnComplete message whose buffers (with the
\* fragments the message itself carries) both hold text appends exactly two
\* messages, the user's then the assistant's; with one buffer holding text,
\* exactly the one message of that role; with none, no message.  Both buffers are
\* empty afterwards, and the messages before stay as they were.
Flushed(userInput, mayaOutput) ==
  LET n == Len(messages)
      added == (IF userInput # <<>> THEN <<[role |-> "user", text |-> userInput]>>
                ELSE <<>>)
               \o (IF mayaOutput # <<>> THEN <<[role |-> "maya", text |-> mayaOutput]>>
                   ELSE <<>>)
  IN /\ Len(messages') = n + Len(added)
     /\ SubSeq(messages', 1, n) = messages
     /\ \A i \in 1..Len(added) : /\ messages'[n + i].role = added[i].role
                                 /\ messages'[n + i].text = added[i].text
     /\ currentInputTranscription' = <<>>
     /\ currentOutputTranscription' = <<>>

C11_TurnCompleteFlushes ==
  [][\A tin \in Fragments, tout \in Fragments :
       Delivered(1, <<>>, FALSE, tin, tout, TRUE)
         => Flushed(currentInputTranscription \o tin,
                    currentOutputTranscription \o tout)]_vars

\* a turn was flushed into a user message followed by an assistant message, each
\* made of two fragments
C11_Witness ==
  /\ rev = 1
  /\ Len(messages) = 2
  /\ messages[1].role = "user" /\ Len(messages[1].text) = 2
  /\ messages[2].role = "maya" /\ Len(messages[2].text) = 2
  /\ currentInputTranscription = <<>>
  /\ currentOutputTranscription = <<>>

\* C12: at most one text prompt is outstanding: a handleDeepPrompt call made
\* while the generateContent call of an earlier one is still in flight adds no
\* message and makes no call.
C12_OnePromptAtATime ==
  [][\A text \in {<<>>, <<"prompt">>} :
       (handleDeepPrompt(text) /\ InFlight("prompt") # {})
         => UNCHANGED <<messages, req>>]_vars

\* C13: later revision.  createBlob maps every sample into -32768..32767: a
\* sample of 1.0 or more to 32767, one of -1.0 or less to -32768, and a larger
\* sample never to a smaller value (no wraparound).
C13_SamplesSaturate ==
  rev = 2 =>
    \A i \in DOMAIN lastFrame.data :
      LET x == lastFrame.data[i]
          v == lastFrame.int16[i]
      IN /\ v \in -32768..32767
         /\ x >= SampleDen => v = 32767
         /\ x <= -SampleDen => v = -32768
         /\ \A j \in DOMAIN lastFrame.data :
              x <= lastFrame.data[j] => v <= lastFrame.int16[j]

\* a frame with a sample above 1.0, which unclamped would wrap, and one below -1.0
C13_Witness ==
  /\ rev = 2
  /\ \E i, j \in DOMAIN lastFrame.data :
       /\ lastFrame.data[i] > SampleDen /\ lastFrame.int16[i] = 32767
       /\ lastFrame.data[j] < -SampleDen /\ lastFrame.int16[j] = -32768

\* C14: later revision.  The history never holds more than HistoryCap messages,
\* whatever is added, deleted or cleared; a step that adds a message (the last
\* message carries an id the history did not hold) to a full history drops
\* exactly its oldest message, and every add keeps the others in their order
\* with the new message last.
C14_HistoryCapped ==
  [][/\ Len(messages) <= HistoryCap
     /\ Len(messages') <= HistoryCap
     /\ (/\ messages' # <<>>
         /\ \A i \in DOMAIN messages : messages[i].id # messages'[Len(messages')].id)
        => IF Len(messages) = HistoryCap
           THEN /\ Len(messages') = HistoryCap
                /\ SubSeq(messages', 1, HistoryCap - 1) = Tail(messages)
           ELSE /\ Len(messages') = Len(messages) + 1
                /\ SubSeq(messages', 1, Len(messages)) = messages]_vars

\* a full history that has lost its oldest message to a prompt
C14_Witness ==
  /\ Len(messages) = HistoryCap
  /\ messages[1].id = 2
  /\ messages[HistoryCap].id = HistoryCap + 1
  /\ messages[HistoryCap].text = <<"prompt">>

\* C15: later revision.  Once the first effect has run, and after every change
\* of the history with the effect run it triggers, the item stored under
\* 'maya_neural_link' is the JSON of an array that holds the messages of the
\* history in their order, so that the initialiser run on it gives messages of
\* the same roles and texts in the same order.
C15_StoreMirrorsHistory ==
  (rev = 2 /\ mounted) =>
    /\ store.kind = "array"
    /\ Len(store.items) = Len(messages)
    /\ \A i \in DOMAIN messages :
         /\ store.items[i].id = messages[i].id
         /\ store.items[i].role = messages[i].role
         /\ store.items[i].text = messages[i].text
         /\ store.items[i].imageUrl = messages[i].imageUrl
         /\ store.items[i].timestamp = "ISO string"
    /\ Len(initialMessages(store)) = Len(messages)
    /\ \A i \in DOMAIN messages :
         /\ initialMessages(store)[i].role = messages[i].role
         /\ initialMessages(store)[i].text = messages[i].text

\* a history that was loaded, lost messages to deletions and got a prompt and
\* its response, with its copy in the store
C15_Witness ==
  /\ rev = 2 /\ mounted
  /\ nForgets = MaxForgets
  /\ Len(messages) >= CondenseMin
  /\ messages[1].text = <<"old">>
  /\ messages[Len(messages)].text = <<"response">>
  /\ Len(store.items) = Len(messages)

\* C16: later revision.  A confirmed clearMemories, with the effect run that
\* follows it, leaves the history empty and no item under 'maya_neural_link';
\* a declined one leaves the history and the store as they were.
C16_ClearRemovesItem ==
  [][/\ clearMemories(TRUE) => (messages' = <<>> /\ store' = NoItem)
     /\ clearMemories(FALSE) => UNCHANGED histVars]_vars

\* C17: later revision.  isMayaSpeaking is true whenever the active set holds a
\* source.
C17_SpeakingWhileSources == (rev = 2 /\ sourcesRef # {}) => isMayaSpeaking

\* C18: while the session is stopped (isActive is false, and no stopSession or
\* startLiveSession call is under way), the active set is empty and the cursor
\* is 0: a decode that was pending when stopSession was called starts nothing.
C18_NothingPlaysAfterStop ==
  (~isActive /\ Settled) => (sourcesRef = {} /\ nextStartTimeRef = 0)

\* C19: every failure of a remote call is caught and told to the user: once the
\* handshake of a start was rejected, or the onerror callback of a session has
\* fired, the history holds an error message, and no rejection is left
\* unhandled.
C19_FailuresReported ==
  LET reported == \E i \in DOMAIN messages :
                     messages[i].text \in {<<"[System Link Failure]">>,
                                           <<"[System: Neural Link saturated.]">>,
                                           <<"Oops, something went wrong.">>}
  IN /\ ~unhandled
     /\ \A k \in Starts : (start[k].failed /\ sess[k] = "closed") => reported
     /\ errored # {} => reported

\* C20: playback follows arrival: when a chunk is started after a chunk of a
\* message that arrived later (both were waiting for their decode at the same
\* time, and the later one's finished first), the earlier one still gets a start
\* time that is not after the later one's, and ends before the later one starts.
C20_ArrivalOrder ==
  last.overtaken => (last.t <= last.prevT /\ last.t + last.d <= last.prevT)

C22_CloseOnce == \A k \in Starts : closeCalls[k] <= 1

\* C23: no stopSession call raises to its caller: none makes the startLiveSession
\* call awaiting it take its catch, none leaves a rejected promise behind (a
\* rejection left by a step that is not one of an onmessage call is one of
\* stopSession); and a stopSession call that was suspended ends with the context
\* references null, the set of sources empty and the cursor at 0.
C23_TeardownCompletes ==
  [][/\ \A k \in Starts : start'[k].pc # "stopErr"
     /\ (unhandled' /\ ~unhandled) => hd' # hd
     /\ \A j \in Slots :
          (stop[j].pc # "idle" /\ stop'[j].pc = "idle")
          => /\ outputAudioCtxRef' = 0
             /\ sourcesRef' = {}
             /\ nextStartTimeRef' = 0]_vars

\* C24: later revision: once a startLiveSession call has its context references
\* assigned (and has not failed), no stopSession call made before it, and awaited
\* by nobody, runs any further: none executes a release step.
C24_NoEarlierTeardownRuns ==
  [][rev = 2 =>
       \A k \in Starts, j \in Slots :
         (/\ start[k].pc \notin {"new", "stop", "stopOk", "stopErr"}
          /\ ~start[k].failed
          /\ stop[j].pc # "idle"
          /\ stop[j].awaiter = 0
          /\ stop[j].era < k)
         => stop'[j] = stop[j]]_vars

\* C25: earlier revision.  A message without turnComplete appends its fragments
\* to the end of the buffers and emits nothing; a message with turnComplete emits
\* once, the user's text then the assistant's, each the buffer followed by the
\* message's own fragment, and empties the buffers; no other step (the rest of
\* an onmessage call after its decode) touches the buffers or the history.  With the
\* buffers empty at the start, each emitted text is the fragments received since
\* the previous turnComplete, in arrival order.
C25_TextIsConcatenation ==
  [][/\ \A parts \in {<<>>, <<1>>}, tin \in Fragments, tout \in Fragments, turn \in BOOLEAN :
          Delivered(1, parts, FALSE, tin, tout, turn)
          => IF turn
             THEN Flushed(currentInputTranscription \o tin,
                          currentOutputTranscription \o tout)
             ELSE /\ currentInputTranscription' = currentInputTranscription \o tin
                  /\ currentOutputTranscription' = currentOutputTranscription \o tout
                  /\ messages' = messages
     /\ msgsLeft' = msgsLeft => UNCHANGED <<turnVars, messages>>]_vars

\* The user's text of a turn is made of the fragments of two messages in the
\* order they came, emitted while an earlier message's audio was being decoded.
C25_Witness ==
  /\ Len(messages) >= 1
  /\ messages[1].role = "user"
  /\ messages[1].text = <<"a", "b">>
  /\ \E h \in Handlers : hd[h].pc = "decode"

\* C26: an accepted handleDeepPrompt call appends the user's message, and when
\* its generateContent call settles exactly one assistant message is appended
\* after it: the response (or the image) on success, the apology or the system
\* message on failure; isThinking is false then; neither step touches the state
\* of the live session.
C26_PromptAnswered ==
  [][LET n == Len(messages) IN
     /\ \A text \in {<<>>, <<"prompt">>} :
          (handleDeepPrompt(text) /\ req' # req)
          => /\ Len(messages') = n + 1
             /\ SubSeq(messages', 1, n) = messages
             /\ messages'[n + 1].role = "user"
             /\ messages'[n + 1].text = text
             /\ UNCHANGED liveVars
     /\ \A r \in ReqIds, out \in {"ok"} \cup ErrorsTried :
          (generateContentSettles(r, out) /\ req[r].kind = "prompt")
          => /\ Len(messages') = n + 1
             /\ SubSeq(messages', 1, n) = messages
             /\ \E i \in 1..n : messages[i].role = "user" /\ messages[i].text = <<"prompt">>
             /\ messages'[n + 1].role = "maya"
             /\ messages'[n + 1].text
                  = (IF out # "ok"
                     THEN (IF rev = 1 THEN <<"Oops, something went wrong.">>
                           ELSE <<"[System Link Failure]">>)
                     ELSE IF req[r].mode = "IMAGE"
                     THEN <<"Vision manifestation complete.">>
                     ELSE <<"response">>)
             /\ ~isThinking'
             /\ UNCHANGED liveVars]_vars

\* A prompt failed: its user message is followed by the failure message, and
\* isThinking is false.
C26_Witness ==
  /\ ~isThinking
  /\ \E r \in ReqIds : req[r].pc = "settled" /\ req[r].kind = "prompt"
  /\ Len(messages) >= 2
  /\ messages[Len(messages) - 1].role = "user"
  /\ messages[Len(messages)].text \in {<<"Oops, something went wrong.">>,
                                        <<"[System Link Failure]">>}

\* C27: a source whose 'ended' fires is not in the set afterwards; only started
\* sources are in the set, so stop() is never called on a finished one; with no
\* teardown, a source in the set whose end the clock can reach is eventually out
\* of it, and once every message has been handled and the clock can reach the
\* end of every source in the set, the set is eventually empty.
C27_SourcesEnd ==
  /\ [][\A i \in Sources : SourceEnded(i) => i \notin sourcesRef']_vars
  /\ [](\A i \in sourcesRef : i <= Len(src) /\ src[i].state = "started")
  /\ \A i \in Sources :
       (i \in sourcesRef /\ src[i].end <= horizon) ~> (i \notin sourcesRef)
  /\ (/\ msgsLeft = 0
      /\ \A h \in Handlers : hd[h].pc # "decode"
      /\ \A i \in sourcesRef : src[i].end <= horizon) ~> (sourcesRef = {})

\* Two sources were scheduled and both played to their end: the set is empty
\* with no stop() called.
C27_Witness ==
  /\ Len(src) = 2
  /\ \A i \in 1..2 : src[i].state = "ended"
  /\ sourcesRef = {}
  /\ afterIntr = "none"

\* C28: later revision.  Before the first effect has run, on a store with no
\* item, with text that is not JSON or with JSON that is not an array, the
\* history is empty and nothing was raised; the first effect then stores the
\* JSON of the empty array and leaves the history empty.
C28_UnreadableStoreIsEmpty ==
  [][(/\ rev = 2
      /\ ~mounted
      /\ store.kind \in {"absent", "garbage", "object"})
     => /\ messages = <<>>
        /\ ~unhandled
        /\ FirstEffect => /\ store' = [kind |-> "array", items |-> <<>>]
                           /\ messages' = <<>>]_vars

\* The initialiser has run on a store whose text is not JSON: the history is
\* empty, the first effect is still to run.
C28_Witness ==
  /\ rev = 2
  /\ ~mounted
  /\ store.kind = "garbage"
  /\ messages = <<>>

\* C29: once a startLiveSession call during whose suspension stopSession was
\* invoked has run to completion, and every stopSession call too, with no later
\* start call, the indicator is off, sessionRef and streamRef are null, the
\* call's microphone track is not live and its session is not open.
C29_StopDuringStartIsIdle ==
  \A k \in Starts :
    (start[k].hit /\ nStarts = k /\ Settled) =>
      /\ ~isActive
      /\ sessionRef = 0 /\ streamRef = 0
      /\ track[k] # "live"
      /\ sess[k] \notin {"connecting", "open"}

\* C30: earlier revision: both transcript buffers are empty in every step that
\* calls startLiveSession and in every step that opens a session.
C30_BuffersEmptyAtStart ==
  [][(nStarts' # nStarts \/ \E k \in Starts : ConnectResolves(k))
     => /\ currentInputTranscription = <<>>
        /\ currentOutputTranscription = <<>>]_vars

\* C31: a chunk whose decode was pending when the interrupted branch of another
\* onmessage call ran is not started when the decode resolves: no source is
\* created, none is added to the set, and the cursor does not advance.
C31_NoStartAcrossInterruption ==
  [][\A h \in Handlers :
       (MessageAfterDecode(h) /\ hd[h].crossed)
       => /\ src' = src
          /\ sourcesRef' \subseteq sourcesRef
          /\ nextStartTimeRef' <= nextStartTimeRef]_vars

\* C32: earlier revision: when the rest of an onmessage call runs after its
\* decodeAudioData, or after its resume has resolved, outputAudioCtxRef is not
\* null, so the call does not fault on it.
C32_NoNullContext ==
  [][rev = 1 =>
       \A h \in Handlers :
         /\ MessageAfterDecode(h) => (outputAudioCtxRef # 0 /\ unhandled' = unhandled)
         /\ (MessageAfterResume(h) /\ outCtx[hd[h].obj] = "suspended")
              => outputAudioCtxRef # 0]_vars

\* C33: later revision: isThinking is true whenever a generateContent call, of
\* handleDeepPrompt or of condenseHistory, is in flight.
C33_BusyWhileInFlight ==
  rev = 2 => (InFlight("prompt") \cup InFlight("condense") # {} => isThinking)
====
